---------------------------- MODULE Spec2Model ----------------------------
(***************************************************************************)
(* A model of octave.rs: the PEG grammar of octave-parser (grammar.pest),  *)
(* executed with pest's matching rules, and the life cycle of the VS Code  *)
(* client of octave-lsp (Extension, findBinary, LogService).               *)
(*                                                                         *)
(* A document is a sequence of one-character strings.  Every grammar rule  *)
(* is an operator rule(s, i) that matches document s from position i and   *)
(* returns [ok, pos, kids]: whether it matched, the position after the     *)
(* match, and the tokens (pest's pairs) it produced.  A token is           *)
(* [rule, lo, hi, kids], covering s[lo] .. s[hi - 1].                      *)
(***************************************************************************)
EXTENDS Integers, Sequences, FiniteSets, TLC

VARIABLES
  given,    \* what the documents were written from: the parts of each text
  docs,     \* the documents handed to the parser
  trees,    \* per document: "none", or the result of toplevel
  env,      \* the extension host: process.env.PATH, the files that exist, octave.lspPath
  ext,      \* the Extension instances created so far, oldest first
  trace     \* the calls made on the output channels and language clients, in order

vars == <<given, docs, trees, env, ext, trace>>

----------------------------------------------------------------------------
(* pest's matching primitives *)

Fail == [ok |-> FALSE, pos |-> 0, kids |-> <<>>]

Ok(p, ks) == [ok |-> TRUE, pos |-> p, kids |-> ks]

\* a quoted terminal "c" at position i
At(s, i, c) == i >= 1 /\ i <= Len(s) /\ s[i] = c

\* a built-in character class at position i
In(s, i, class) == i >= 1 /\ i <= Len(s) /\ s[i] \in class

\* ANY
ANY(s, i) == i >= 1 /\ i <= Len(s)

Token(rule, lo, hi, ks) == [rule |-> rule, lo |-> lo, hi |-> hi, kids |-> ks]

\* a normal { } or compound-atomic ${ } rule: one token around the inner ones
Pair(rule, lo, r) ==
  IF r.ok THEN Ok(r.pos, <<Token(rule, lo, r.pos, r.kids)>>) ELSE Fail

\* an atomic @{ } rule: one token, the inner ones dropped
Atomic(rule, lo, r) ==
  IF r.ok THEN Ok(r.pos, <<Token(rule, lo, r.pos, <<>>)>>) ELSE Fail

----------------------------------------------------------------------------
(* character classes *)

WHITESPACE == {" ", "\t", "\r", "\n"}

ASCII_NONZERO_DIGIT == {"1", "2", "3", "4", "5", "6", "7", "8", "9"}

ASCII_DIGIT == {"0"} \cup ASCII_NONZERO_DIGIT

ASCII_HEX_DIGIT ==
  ASCII_DIGIT \cup {"a", "b", "c", "d", "e", "f", "A", "B", "C", "D", "E", "F"}

ALPHABETIC ==
  {"a", "b", "c", "d", "e", "f", "g", "h", "i", "j", "k", "l", "m",
   "n", "o", "p", "q", "r", "s", "t", "u", "v", "w", "x", "y", "z",
   "A", "B", "C", "D", "E", "F", "G", "H", "I", "J", "K", "L", "M",
   "N", "O", "P", "Q", "R", "S", "T", "U", "V", "W", "X", "Y", "Z"}

\* the implicit WHITESPACE* that pest puts at every ~ and between the
\* iterations of a repetition of a rule that is not atomic
RECURSIVE skip(_, _)
skip(s, i) == IF In(s, i, WHITESPACE) THEN skip(s, i + 1) ELSE i

\* the rule named `rule` matched at position i: how one rule invokes another
RECURSIVE Match(_, _, _)

----------------------------------------------------------------------------
(* literals: identifier, number, string *)

RECURSIVE identifier_rest(_, _)
identifier_rest(s, i) ==
  IF In(s, i, ALPHABETIC \cup ASCII_DIGIT \cup {"_"})
  THEN identifier_rest(s, i + 1) ELSE i

identifier(s, i) ==
  IF In(s, i, ALPHABETIC \cup {"_"})
  THEN Atomic("identifier", i, Ok(identifier_rest(s, i + 1), <<>>))
  ELSE Fail

\* ASCII_DIGIT*
RECURSIVE digits(_, _)
digits(s, i) == IF In(s, i, ASCII_DIGIT) THEN digits(s, i + 1) ELSE i

\* "." ~ ASCII_DIGIT*, optional
number_fraction(s, i) == IF At(s, i, ".") THEN digits(s, i + 1) ELSE i

\* ^"e" ~ ("+" | "-")? ~ ASCII_DIGIT+, optional
number_exponent(s, i) ==
  LET d == IF In(s, i + 1, {"+", "-"}) THEN i + 2 ELSE i + 1
  IN  IF In(s, i, {"e", "E"}) /\ In(s, d, ASCII_DIGIT)
      THEN digits(s, d + 1) ELSE i

number(s, i) ==
  LET sign == IF At(s, i, "-") THEN i + 1 ELSE i
      int  == IF At(s, sign, "0") THEN sign + 1
              ELSE IF In(s, sign, ASCII_NONZERO_DIGIT)
                   THEN digits(s, sign + 1) ELSE 0
  IN  IF int = 0 THEN Fail
      ELSE Atomic("number", i,
                  Ok(number_exponent(s, number_fraction(s, int)), <<>>))

\* "\\" ~ ("u" ~ ASCII_HEX_DIGIT{4})
unicode_escape(s, i) ==
  /\ At(s, i, "\\") /\ At(s, i + 1, "u")
  /\ \A k \in 2..5 : In(s, i + k, ASCII_HEX_DIGIT)

char_double(s, i) ==
  IF ANY(s, i) /\ ~(At(s, i, "\"") \/ At(s, i, "\\"))
  THEN Atomic("char_double", i, Ok(i + 1, <<>>))
  ELSE IF At(s, i, "\\")
          /\ In(s, i + 1, {"\"", "\\", "/", "b", "f", "n", "r", "t"})
  THEN Atomic("char_double", i, Ok(i + 2, <<>>))
  ELSE IF unicode_escape(s, i)
  THEN Atomic("char_double", i, Ok(i + 6, <<>>))
  ELSE Fail

char_simple(s, i) ==
  IF ANY(s, i) /\ ~(At(s, i, "'") /\ At(s, i + 1, "\\"))
  THEN Atomic("char_simple", i, Ok(i + 1, <<>>))
  ELSE IF At(s, i, "\\")
          /\ In(s, i + 1, {"'", "\\", "/", "b", "f", "n", "r", "t"})
  THEN Atomic("char_simple", i, Ok(i + 2, <<>>))
  ELSE IF unicode_escape(s, i)
  THEN Atomic("char_simple", i, Ok(i + 6, <<>>))
  ELSE Fail

\* char_double*
RECURSIVE chars_double(_, _)
chars_double(s, i) ==
  LET c == Match("char_double", s, i)
  IN  IF c.ok
      THEN LET m == chars_double(s, c.pos) IN Ok(m.pos, c.kids \o m.kids)
      ELSE Ok(i, <<>>)

\* char_simple*
RECURSIVE chars_simple(_, _)
chars_simple(s, i) ==
  LET c == Match("char_simple", s, i)
  IN  IF c.ok
      THEN LET m == chars_simple(s, c.pos) IN Ok(m.pos, c.kids \o m.kids)
      ELSE Ok(i, <<>>)

string(s, i) ==
  LET d == chars_double(s, i + 1)
      q == chars_simple(s, i + 1)
  IN  IF At(s, i, "\"") /\ At(s, d.pos, "\"")
      THEN Pair("string", i, Ok(d.pos + 1, d.kids))
      ELSE IF At(s, i, "'") /\ At(s, q.pos, "'")
      THEN Pair("string", i, Ok(q.pos + 1, q.kids))
      ELSE Fail

literal(s, i) ==
  LET str == Match("string", s, i)
      num == Match("number", s, i)
  IN  IF str.ok THEN str
      ELSE IF num.ok THEN num
      ELSE Match("identifier", s, i)

single_value(s, i) == Pair("single_value", i, Match("literal", s, i))

----------------------------------------------------------------------------
(* matrix rows: compound-atomic, whitespace is a separator here *)

\* WHITESPACE* without the implicit skip's meaning: the explicit one of line
RECURSIVE spaces(_, _)
spaces(s, i) == IF In(s, i, WHITESPACE) THEN spaces(s, i + 1) ELSE i

\* the separator without its second alternative: the comma alone separates
line_separator_comma(s, i) ==
  LET c == spaces(s, i) IN IF At(s, c, ",") THEN spaces(s, c + 1) ELSE 0

\* (WHITESPACE* ~ "," ~ WHITESPACE*) | WHITESPACE+ : the position after the
\* separator, 0 when there is none
line_separator(s, i) ==
  LET c == spaces(s, i)
  IN  IF At(s, c, ",") THEN spaces(s, c + 1)
      ELSE IF In(s, i, WHITESPACE) THEN c
      ELSE 0

\* a row element that may be any atom: a call, a matrix or a literal
line_element_atom(s, i) == Match("atom", s, i)

\* the literal an element of a row is
line_element(s, i) == Match("literal", s, i)

\* (separator ~ literal)*
RECURSIVE line_rest(_, _)
line_rest(s, i) ==
  LET p == line_separator(s, i)
      e == IF p = 0 THEN Fail ELSE line_element(s, p)
  IN  IF e.ok
      THEN LET m == line_rest(s, e.pos) IN Ok(m.pos, e.kids \o m.kids)
      ELSE Ok(i, <<>>)

line(s, i) ==
  LET e == line_element(s, i)
  IN  IF e.ok
      THEN LET m == line_rest(s, e.pos)
           IN  Pair("line", i, Ok(m.pos, e.kids \o m.kids))
      ELSE Pair("line", i, Ok(i, <<>>))

\* ";" ~ line
semi_line(s, i) ==
  IF At(s, i, ";") THEN Match("line", s, skip(s, i + 1)) ELSE Fail

\* the second and later iterations of (";" ~ line)*
RECURSIVE semi_line_more(_, _)
semi_line_more(s, i) ==
  LET r == semi_line(s, skip(s, i))
  IN  IF r.ok
      THEN LET m == semi_line_more(s, r.pos) IN Ok(m.pos, r.kids \o m.kids)
      ELSE Ok(i, <<>>)

\* (";" ~ line)*
semi_line_star(s, i) ==
  LET r == semi_line(s, i)
  IN  IF r.ok
      THEN LET m == semi_line_more(s, r.pos) IN Ok(m.pos, r.kids \o m.kids)
      ELSE Ok(i, <<>>)

matrix(s, i) ==
  LET first == Match("line", s, skip(s, i + 1))
      rest  == semi_line_star(s, skip(s, first.pos))
      close == skip(s, rest.pos)
  IN  IF At(s, i, "[") /\ At(s, close, "]")
      THEN Pair("matrix", i, Ok(close + 1, first.kids \o rest.kids))
      ELSE Fail

value(s, i) ==
  LET m == Match("matrix", s, i)
  IN  IF m.ok THEN m ELSE Match("single_value", s, i)

----------------------------------------------------------------------------
(* expressions *)

OpRule ==
  [c \in {"+", "-", "*", "/", "^", "."} |->
     CASE c = "+" -> "add" [] c = "-" -> "sub" [] c = "*" -> "mul"
       [] c = "/" -> "div" [] c = "^" -> "pow" [] c = "." -> "access"]

op(s, i) ==
  IF In(s, i, DOMAIN OpRule)
  THEN Pair(OpRule[s[i]], i, Ok(i + 1, <<>>)) ELSE Fail


\* "," ~ expr
comma_expr(s, i) ==
  IF At(s, i, ",") THEN Match("expr", s, skip(s, i + 1)) ELSE Fail

\* the second and later iterations of ("," ~ expr)*
RECURSIVE comma_expr_more(_, _)
comma_expr_more(s, i) ==
  LET r == comma_expr(s, skip(s, i))
  IN  IF r.ok
      THEN LET m == comma_expr_more(s, r.pos) IN Ok(m.pos, r.kids \o m.kids)
      ELSE Ok(i, <<>>)

\* ("," ~ expr)*
comma_expr_star(s, i) ==
  LET r == comma_expr(s, i)
  IN  IF r.ok
      THEN LET m == comma_expr_more(s, r.pos) IN Ok(m.pos, r.kids \o m.kids)
      ELSE Ok(i, <<>>)

\* (expr ~ ("," ~ expr)*)?
call_arguments(s, i) ==
  LET first == Match("expr", s, i)
  IN  IF first.ok
      THEN LET rest == comma_expr_star(s, skip(s, first.pos))
           IN  Ok(rest.pos, first.kids \o rest.kids)
      ELSE Ok(i, <<>>)

call(s, i) ==
  LET id    == Match("identifier", s, i)
      open  == skip(s, id.pos)
      args  == call_arguments(s, skip(s, open + 1))
      close == skip(s, args.pos)
  IN  IF id.ok /\ At(s, open, "(") /\ At(s, close, ")")
      THEN Pair("call", i, Ok(close + 1, id.kids \o args.kids))
      ELSE Fail

atom(s, i) ==
  LET c == Match("call", s, i) IN IF c.ok THEN c ELSE Match("value", s, i)

\* op ~ atom
op_atom(s, i) ==
  LET o == Match("op", s, i)
      a == IF o.ok THEN Match("atom", s, skip(s, o.pos)) ELSE Fail
  IN  IF a.ok THEN Ok(a.pos, o.kids \o a.kids) ELSE Fail

\* the second and later iterations of (op ~ atom)*
RECURSIVE op_atom_more(_, _)
op_atom_more(s, i) ==
  LET r == op_atom(s, skip(s, i))
  IN  IF r.ok
      THEN LET m == op_atom_more(s, r.pos) IN Ok(m.pos, r.kids \o m.kids)
      ELSE Ok(i, <<>>)

\* (op ~ atom)*
op_atom_star(s, i) ==
  LET r == op_atom(s, i)
  IN  IF r.ok
      THEN LET m == op_atom_more(s, r.pos) IN Ok(m.pos, r.kids \o m.kids)
      ELSE Ok(i, <<>>)

\* binary built by precedence climbing: atom ~ (op ~ binary)?, the rest of
\* the chain nested under its first operator
binary_nested(s, i) ==
  LET a == Match("atom", s, i)
      o == IF a.ok THEN Match("op", s, skip(s, a.pos)) ELSE Fail
      b == IF o.ok THEN Match("binary", s, skip(s, o.pos)) ELSE Fail
  IN  IF ~a.ok THEN Fail
      ELSE IF b.ok
      THEN Pair("binary", i, Ok(b.pos, a.kids \o o.kids \o b.kids))
      ELSE Pair("binary", i, Ok(skip(s, a.pos), a.kids))

binary(s, i) ==
  LET a == Match("atom", s, i)
  IN  IF a.ok
      THEN LET t == op_atom_star(s, skip(s, a.pos))
           IN  Pair("binary", i, Ok(t.pos, a.kids \o t.kids))
      ELSE Fail

range_operand(s, i) ==
  LET b == Match("binary", s, i)
  IN  IF b.ok THEN b ELSE Match("value", s, i)

\* ":" ~ range_operand
colon_operand(s, i) ==
  IF At(s, i, ":") THEN Match("range_operand", s, skip(s, i + 1)) ELSE Fail

\* the tail without its limit: (":" ~ range_operand)*
RECURSIVE range_tail_unlimited(_, _)
range_tail_unlimited(s, i) ==
  LET r == colon_operand(s, i)
  IN  IF r.ok
      THEN LET m == range_tail_unlimited(s, skip(s, r.pos))
           IN  Ok(m.pos, r.kids \o m.kids)
      ELSE Ok(i, <<>>)

\* (":" ~ range_operand ~ (":" ~ range_operand)?)?
range_tail(s, i) ==
  LET second == colon_operand(s, i)
      third  == IF second.ok THEN colon_operand(s, skip(s, second.pos))
                ELSE Fail
  IN  IF ~second.ok THEN Ok(i, <<>>)
      ELSE IF third.ok THEN Ok(third.pos, second.kids \o third.kids)
      ELSE Ok(skip(s, second.pos), second.kids)

expr(s, i) ==
  LET first == Match("range_operand", s, i)
  IN  IF first.ok
      THEN LET t == range_tail(s, skip(s, first.pos))
           IN  Pair("expr", i, Ok(t.pos, first.kids \o t.kids))
      ELSE Fail

----------------------------------------------------------------------------
(* statements and the whole document *)

assignment(s, i) ==
  LET id == Match("identifier", s, i)
      eq == skip(s, id.pos)
      e  == IF id.ok /\ At(s, eq, "=")
            THEN Match("expr", s, skip(s, eq + 1)) ELSE Fail
  IN  Pair("assignment", i,
           IF e.ok THEN Ok(e.pos, id.kids \o e.kids) ELSE Fail)

statement(s, i) ==
  LET a == Match("assignment", s, i)
  IN  IF a.ok THEN a ELSE Match("expr", s, i)

statement_semi(s, i) ==
  LET st   == Match("statement", s, i)
      semi == skip(s, st.pos)
  IN  IF st.ok /\ At(s, semi, ";")
      THEN Pair("statement_semi", i, Ok(semi + 1, st.kids))
      ELSE Fail

\* statement_semi | statement
one_statement(s, i) ==
  LET ss == Match("statement_semi", s, i)
  IN  IF ss.ok THEN ss ELSE Match("statement", s, i)

\* the later iterations without the implicit whitespace between statements
RECURSIVE statements_more_adjacent(_, _)
statements_more_adjacent(s, i) ==
  LET r == one_statement(s, i)
  IN  IF r.ok
      THEN LET m == statements_more_adjacent(s, r.pos)
           IN  Ok(m.pos, r.kids \o m.kids)
      ELSE Ok(i, <<>>)

\* the second and later iterations of (statement_semi | statement)*
RECURSIVE statements_more(_, _)
statements_more(s, i) ==
  LET r == one_statement(s, skip(s, i))
  IN  IF r.ok
      THEN LET m == statements_more(s, r.pos) IN Ok(m.pos, r.kids \o m.kids)
      ELSE Ok(i, <<>>)

statements(s, i) ==
  LET r == one_statement(s, i)
  IN  IF r.ok
      THEN LET m == statements_more(s, r.pos) IN Ok(m.pos, r.kids \o m.kids)
      ELSE Ok(i, <<>>)

\* EOI left out of toplevel: any position passes for the end of the input
EOI_anywhere(s, i) == Pair("EOI", i, Ok(i, <<>>))

\* EOI: the end of the input, a token of its own
EOI(s, i) ==
  IF i = Len(s) + 1 THEN Pair("EOI", i, Ok(i, <<>>)) ELSE Fail

toplevel(s) ==
  LET body == Match("statements", s, skip(s, 1))
      end  == Match("EOI", s, skip(s, body.pos))
  IN  Pair("toplevel", 1,
           IF end.ok THEN Ok(end.pos, body.kids \o end.kids) ELSE Fail)

Match(rule, s, i) ==
  CASE rule = "identifier"     -> identifier(s, i)
    [] rule = "number"         -> number(s, i)
    [] rule = "char_double"    -> char_double(s, i)
    [] rule = "char_simple"    -> char_simple(s, i)
    [] rule = "string"         -> string(s, i)
    [] rule = "literal"        -> literal(s, i)
    [] rule = "single_value"   -> single_value(s, i)
    [] rule = "line"           -> line(s, i)
    [] rule = "matrix"         -> matrix(s, i)
    [] rule = "value"          -> value(s, i)
    [] rule = "op"             -> op(s, i)
    [] rule = "call"           -> call(s, i)
    [] rule = "atom"           -> atom(s, i)
    [] rule = "binary"         -> binary(s, i)
    [] rule = "range_operand"  -> range_operand(s, i)
    [] rule = "expr"           -> expr(s, i)
    [] rule = "assignment"     -> assignment(s, i)
    [] rule = "statement"      -> statement(s, i)
    [] rule = "statement_semi" -> statement_semi(s, i)
    [] rule = "statements"     -> statements(s, i)
    [] rule = "EOI"            -> EOI(s, i)

\* parse(text): the tree, or the failure, of one whole document
parse(s) == toplevel(s)

----------------------------------------------------------------------------
(* the parser's state machine: documents come in, each is parsed once *)

NotParsed == [parsed |-> FALSE]

\* what parse hands back: Ok(tree) or Err, never a partial tree
Result(s) ==
  LET r == parse(s) IN [parsed |-> TRUE, ok |-> r.ok, kids |-> r.kids]

ParseDoc(d) ==
  /\ d \in DOMAIN docs
  /\ ~trees[d].parsed
  /\ trees' = [trees EXCEPT ![d] = Result(docs[d])]
  /\ UNCHANGED <<given, docs, env, ext, trace>>

NextParser == \E d \in DOMAIN docs : ParseDoc(d)

NoHost == [PATH |-> <<>>, set |-> FALSE, files |-> {}, lspPath |-> <<>>]

\* the parser on its own, no extension host: the documents Docs(g) written
\* from some g of G
InitDocs(G, Docs(_)) ==
  /\ given \in G
  /\ docs = Docs(given)
  /\ trees = [d \in DOMAIN docs |-> NotParsed]
  /\ env = NoHost
  /\ ext = <<>>
  /\ trace = <<>>

----------------------------------------------------------------------------
(* reading a tree *)

\* the text a token covers
Text(s, n) == SubSeq(s, n.lo, n.hi - 1)

RECURSIVE TrimRight(_)
TrimRight(t) ==
  IF t # <<>> /\ t[Len(t)] \in WHITESPACE
  THEN TrimRight(SubSeq(t, 1, Len(t) - 1)) ELSE t

\* a tree without its positions: rules, nesting, and the text of the leaves
RECURSIVE Shape(_, _)
Shape(s, n) ==
  [rule |-> n.rule,
   text |-> IF n.kids = <<>> THEN Text(s, n) ELSE <<>>,
   kids |-> [k \in DOMAIN n.kids |-> Shape(s, n.kids[k])]]

\* every token of a tree
RECURSIVE Nodes(_)
Nodes(n) == {n} \cup UNION {Nodes(n.kids[k]) : k \in DOMAIN n.kids}

Parsed(d) == d \in DOMAIN docs /\ trees[d].parsed

Accepted(d) == Parsed(d) /\ trees[d].ok

Rejected(d) == Parsed(d) /\ ~trees[d].ok

\* the toplevel token of an accepted document
Top(d) == trees[d].kids[1]

\* its statements: all the tokens under toplevel but the closing EOI
Stmts(d) == SubSeq(Top(d).kids, 1, Len(Top(d).kids) - 1)

\* the texts ts one after the other, sep between each two
RECURSIVE Join(_, _)
Join(ts, sep) ==
  IF ts = <<>> THEN <<>>
  ELSE IF Len(ts) = 1 THEN ts[1]
  ELSE ts[1] \o sep \o Join(Tail(ts), sep)

\* the sequences of 0 .. n elements of S
RECURSIVE UpTo(_, _)
UpTo(S, n) ==
  IF n = 0 THEN {<<>>}
  ELSE LET shorter == UpTo(S, n - 1)
       IN  shorter \cup
           {Append(t, c) : t \in {u \in shorter : Len(u) = n - 1}, c \in S}

----------------------------------------------------------------------------
(* whole documents of bounded length over a small alphabet *)

MaxLen == 4

DocChars == {"1", "a", ";", "=", " ", "+", ")"}

DocOf(g) == <<g.text>>

InitDoc == InitDocs({[text |-> t] : t \in UpTo(DocChars, MaxLen)}, DocOf)

SpecDoc == InitDoc /\ [][NextParser]_vars

\* between positions lo and hi - 1 of s there is only whitespace
Blank(s, lo, hi) == lo <= hi /\ \A k \in lo..(hi - 1) : s[k] \in WHITESPACE

\* the tokens under toplevel are statements, then EOI at the very end of the
\* text, and nothing but whitespace lies before, between or after them
Tiles(s, top) ==
  LET ks == top.kids
  IN  /\ ks # <<>>
      /\ ks[Len(ks)].rule = "EOI" /\ ks[Len(ks)].lo = Len(s) + 1
      /\ Blank(s, 1, ks[1].lo)
      /\ \A k \in 1..(Len(ks) - 1) :
           /\ ks[k].rule \in {"statement_semi", "assignment", "expr"}
           /\ ks[k].lo < ks[k].hi
           /\ Blank(s, ks[k].hi, ks[k + 1].lo)

\* C8: parsing is all-or-nothing.  A document is accepted only when its
\* statements, with whitespace alone around them, reach from its first
\* character to the end of the input; a rejected document yields no tree at
\* all, neither for its valid prefix nor for its later statements.
AllOrNothing ==
  \A d \in DOMAIN docs :
    /\ Accepted(d) =>
         /\ Len(trees[d].kids) = 1 /\ Top(d).rule = "toplevel"
         /\ Tiles(docs[d], Top(d))
    /\ Rejected(d) => trees[d].kids = <<>>

\* a rejected document whose proper prefix is a document the parser accepts
RejectedAfterValidPrefix ==
  /\ Rejected(1)
  /\ trees[1].kids = <<>>
  /\ \E k \in 1..(Len(docs[1]) - 1) :
       /\ docs[1][k] \notin WHITESPACE
       /\ parse(SubSeq(docs[1], 1, k)).ok

----------------------------------------------------------------------------
(* operator chains: atom (op atom)* *)

MaxOps == 2

NumberAtoms == {<<"1">>, <<"-", "2">>}

ChainAtoms == NumberAtoms \cup {<<"a">>, <<"f", "(", "x", ")">>}

ChainOps == {"+", "-", "*", "/", "^", "."}

\* first, then the (op, atom) pairs; pad is what is written around each
\* operator; lhs is <<>> or the text "r = " the chain is assigned to
Chains ==
  [first : ChainAtoms,
   pairs : UpTo([op : ChainOps, atom : ChainAtoms], MaxOps),
   pad   : {<<>>, <<" ">>},
   lhs   : {<<>>, <<"r", " ", "=", " ">>}]

RECURSIVE ChainTail(_, _)
ChainTail(pairs, pad) ==
  IF pairs = <<>> THEN <<>>
  ELSE pad \o <<pairs[1].op>> \o pad \o pairs[1].atom
         \o ChainTail(Tail(pairs), pad)

ChainText(g) == g.lhs \o g.first \o ChainTail(g.pairs, g.pad)

ChainDoc(g) == <<ChainText(g)>>

InitChain == InitDocs(Chains, ChainDoc)

SpecChain == InitChain /\ [][NextParser]_vars

\* the one statement's expr: the statement itself, or the value assigned
ChainExpr(d) ==
  IF Stmts(d)[1].rule = "assignment" THEN Stmts(d)[1].kids[2]
  ELSE Stmts(d)[1]

\* the document is one statement whose expr is exactly one binary token, and
\* that token's children are the operands and operators of g in source
\* order, none of them a binary token
FlatChain(d, g) ==
  /\ Accepted(d)
  /\ Len(Stmts(d)) = 1
  /\ Stmts(d)[1].rule = (IF g.lhs = <<>> THEN "expr" ELSE "assignment")
  /\ ChainExpr(d).rule = "expr"
  /\ Len(ChainExpr(d).kids) = 1
  /\ LET b == ChainExpr(d).kids[1]
     IN  /\ b.rule = "binary"
         /\ Len(b.kids) = 1 + 2 * Len(g.pairs)
         /\ Text(docs[d], b.kids[1]) = g.first
         /\ \A k \in DOMAIN g.pairs :
              /\ b.kids[2 * k].rule = OpRule[g.pairs[k].op]
              /\ Text(docs[d], b.kids[2 * k + 1]) = g.pairs[k].atom
         /\ \A k \in DOMAIN b.kids : b.kids[k].rule # "binary"

\* the operand the k-th operator of g follows
OperandBefore(g, k) == IF k = 1 THEN g.first ELSE g.pairs[k - 1].atom

\* some "." of g is written right after a number, with nothing in between
DotAfterNumber(g) ==
  /\ g.pad = <<>>
  /\ \E k \in DOMAIN g.pairs :
       g.pairs[k].op = "." /\ OperandBefore(g, k) \in NumberAtoms

\* C1 as stated: every text atom (op atom)*, op one of + - * / ^ . , parses
\* to exactly one flat binary token with its operands and operators in source
\* order.
ChainIsFlat == Parsed(1) => FlatChain(1, given)

\* C1, amended: every text atom (op atom)* in which no "." directly follows
\* a number operand parses to exactly one flat binary token with its
\* operands and operators in source order, no binary token nested in it.
ChainIsFlatUnlessDotAfterNumber ==
  Parsed(1) /\ ~DotAfterNumber(given) => FlatChain(1, given)

\* r = 1+2*3 is parsed, its chain being 1, (+,2), (*,3)
MixedPrecedenceChainParsed ==
  /\ Parsed(1)
  /\ given.pad = <<>> /\ given.lhs # <<>>
  /\ given.first = <<"1">>
  /\ given.pairs = <<[op |-> "+", atom |-> <<"-", "2">>],
                     [op |-> "*", atom |-> <<"a">>]>>
  /\ FlatChain(1, given)

\* C6: in every accepted document every binary token has at least one
\* (operator, operand) pair after its first operand.
BinaryHasAPair ==
  \A d \in DOMAIN docs :
    Accepted(d) =>
      \A n \in Nodes(Top(d)) : n.rule = "binary" => Len(n.kids) >= 3

----------------------------------------------------------------------------
(* string literals: one body, in single and in double quotes *)

MaxBody == 3

BodyChars == {"a", "1", " ", "+"}

\* document 1 is the body in single quotes, document 2 in double quotes
QuotedDocs(g) == << <<"'">> \o g.body \o <<"'">>,
                    <<"\"">> \o g.body \o <<"\"">> >>

InitString ==
  InitDocs({[body |-> b] : b \in UpTo(BodyChars, MaxBody)}, QuotedDocs)

SpecString == InitString /\ [][NextParser]_vars

\* the document is one statement, a single string literal that runs from the
\* opening quote to the first matching quote and holds the characters of body
OneStringLiteral(d, body) ==
  /\ Accepted(d)
  /\ Len(Stmts(d)) = 1
  /\ \E str \in Nodes(Stmts(d)[1]) :
       /\ str.rule = "string"
       /\ str.lo = 1 /\ str.hi = Len(body) + 3
       /\ Len(str.kids) = Len(body)
       /\ \A k \in DOMAIN body : Text(docs[d], str.kids[k]) = <<body[k]>>

\* C2: single-quoted and double-quoted string literals are accepted alike.
\* A body without quotes and backslashes, wrapped in single quotes, parses as
\* one string literal ending at the first matching quote, as it does wrapped
\* in double quotes.
QuotesAlike ==
  Parsed(1) /\ Parsed(2) =>
    OneStringLiteral(1, given.body) /\ OneStringLiteral(2, given.body)

\* what does hold of the double-quoted document
DoubleQuotedAccepted == Parsed(2) => OneStringLiteral(2, given.body)

----------------------------------------------------------------------------
(* matrices: the same rows, comma-separated and whitespace-separated *)

MaxCells == 5

\* a number, an identifier, a string with a blank in it, a single-quoted
\* string
RowLiterals ==
  {<<"-", "2">>, <<"a", "b">>, <<"\"", " ", "\"">>, <<"'", "q", "'">>}

\* what ends a row in the list of cells
RowEnd == <<";">>

\* the ways of writing the separator of two elements: with a comma, without
Separators ==
  {[comma |-> <<",">>,           blank |-> <<" ">>],
   [comma |-> <<" ", ",", " ">>, blank |-> <<" ", " ">>],
   [comma |-> <<",", " ">>,      blank |-> <<"\t">>]}

\* a matrix is given by its cells, literals and row ends, in source order
Matrices == [cells : UpTo(RowLiterals \cup {RowEnd}, MaxCells), sep : Separators]

\* the rows of a list of cells: the literals up to each row end
RECURSIVE Rows(_)
Rows(cells) ==
  IF cells = <<>> THEN << <<>> >>
  ELSE LET rest == Rows(Tail(cells))
       IN  IF cells[1] = RowEnd THEN << <<>> >> \o rest
           ELSE << <<cells[1]>> \o rest[1] >> \o Tail(rest)

MatrixText(rows, sep) ==
  <<"[">> \o Join([r \in DOMAIN rows |-> Join(rows[r], sep)], <<";">>)
          \o <<"]">>

\* document 1 separates the elements of a row by commas, document 2 by
\* whitespace
MatrixDocs(g) == <<MatrixText(Rows(g.cells), g.sep.comma),
                   MatrixText(Rows(g.cells), g.sep.blank)>>

InitMatrix == InitDocs(Matrices, MatrixDocs)

SpecMatrix == InitMatrix /\ [][NextParser]_vars

\* the matrix token of a document that is one matrix
MatrixOf(d) == Stmts(d)[1].kids[1].kids[1]

\* the document is one matrix whose line tokens are the rows, each holding
\* the row's literals in order
MatrixHasRows(d, rows) ==
  /\ Accepted(d)
  /\ Len(Stmts(d)) = 1
  /\ MatrixOf(d).rule = "matrix"
  /\ Len(MatrixOf(d).kids) = Len(rows)
  /\ \A r \in DOMAIN rows :
       LET ln == MatrixOf(d).kids[r]
       IN  /\ ln.rule = "line"
           /\ Len(ln.kids) = Len(rows[r])
           /\ \A k \in DOMAIN rows[r] :
                /\ ln.kids[k].rule \in {"number", "identifier", "string"}
                /\ Text(docs[d], ln.kids[k]) = rows[r][k]

\* C3: inside a matrix, comma separation and whitespace separation are
\* equivalent.  For rows of literals, the text with "," between the elements
\* of a row (whitespace around it or not) and the text with whitespace
\* between them are accepted or rejected together, and when accepted yield
\* the same matrix: the same rows, the same elements in the same order.
CommaLikeWhitespace ==
  Parsed(1) /\ Parsed(2) =>
    /\ trees[1].ok = trees[2].ok
    /\ trees[1].ok =>
         /\ MatrixHasRows(1, Rows(given.cells))
         /\ MatrixHasRows(2, Rows(given.cells))
         /\ Shape(docs[1], MatrixOf(1)) = Shape(docs[2], MatrixOf(2))

\* [-2,ab;" ",-2] and [-2 ab;" " -2] are both accepted, as two rows of two
TwoByTwoBothWays ==
  /\ Accepted(1) /\ Accepted(2)
  /\ given.cells = <<<<"-", "2">>, <<"a", "b">>, RowEnd,
                     <<"\"", " ", "\"">>, <<"-", "2">> >>
  /\ given.sep.comma = <<",">>
  /\ MatrixHasRows(1, Rows(given.cells))
  /\ MatrixHasRows(2, Rows(given.cells))

----------------------------------------------------------------------------
(* the same items as the elements of a matrix row and as call arguments *)

MaxItems == 3

LiteralItems == {<<"1">>, <<"a">>}

CallItems == {<<"g", "(", "1", ")">>}

ChainItems == {<<"1", "+", "2">>, <<"a", ".", "b">>}

MatrixItems == {<<"[", "1", ",", "2", "]">>}

RangeItems == {<<"1", ":", "2">>}

Items ==
  LiteralItems \cup CallItems \cup ChainItems \cup MatrixItems \cup RangeItems

\* the rule of the token an item is as an operand of its own
ItemRule(item) ==
  CASE item \in LiteralItems -> "single_value"
    [] item \in CallItems    -> "call"
    [] item \in MatrixItems  -> "matrix"
    [] OTHER                 -> "none"

Nestings ==
  [items : UpTo(Items, MaxItems) \ {<<>>}, sep : {<<",">>, <<" ">>}]

\* document 1 is the matrix of one row [item sep item ...], document 2 the
\* call f(item,item,...)
NestDocs(g) == << <<"[">> \o Join(g.items, g.sep) \o <<"]">>,
                  <<"f", "(">> \o Join(g.items, <<",">>) \o <<")">> >>

InitNest == InitDocs(Nestings, NestDocs)

SpecNest == InitNest /\ [][NextParser]_vars

\* the document is the one call f(...) whose arguments are the items, in
\* order: a range as an expr of two operands, a chain as a binary of three
\* children, a literal, call or matrix as the token of its rule
CallHasArguments(d, items) ==
  /\ Accepted(d)
  /\ Len(Stmts(d)) = 1
  /\ LET c == Stmts(d)[1].kids[1].kids[1]
     IN  /\ c.rule = "call"
         /\ Text(docs[d], c.kids[1]) = <<"f">>
         /\ Len(c.kids) = 1 + Len(items)
         /\ \A k \in DOMAIN items :
              LET e == c.kids[k + 1]
              IN  /\ e.rule = "expr"
                  /\ Text(docs[d], e) = items[k]
                  /\ Len(e.kids) = (IF items[k] \in RangeItems THEN 2 ELSE 1)
                  /\ Len(e.kids[1].kids) =
                       (IF items[k] \in ChainItems THEN 3 ELSE 1)
                  /\ items[k] \notin RangeItems \cup ChainItems =>
                       e.kids[1].kids[1].rule = ItemRule(items[k])

\* C4: a matrix row accepts only literals while call arguments are
\* unrestricted.  A matrix whose row holds a call, an operator chain or a
\* nested matrix is rejected; a call whose arguments are matrices, ranges,
\* operator chains, calls or literals is accepted, with those arguments.
RowsOnlyLiteralsCallsAnything ==
  /\ Parsed(1) /\ (\E k \in DOMAIN given.items :
                     given.items[k] \in CallItems \cup ChainItems \cup MatrixItems)
       => Rejected(1)
  /\ Parsed(2) => CallHasArguments(2, given.items)
  /\ Accepted(1) =>
       \A n \in Nodes(Top(1)) :
         n.rule = "line" =>
           \A k \in DOMAIN n.kids :
             n.kids[k].rule \in {"string", "number", "identifier"}

\* [g(1),a] is rejected and f(g(1),a) is accepted
CallInRowRejectedInCallAccepted ==
  /\ given.items = <<<<"g", "(", "1", ")">>, <<"a">>>>
  /\ given.sep = <<",">>
  /\ Rejected(1)
  /\ Accepted(2) /\ CallHasArguments(2, given.items)

----------------------------------------------------------------------------
(* ranges: operands joined by ":" *)

MaxParts == 4

RangeOperands ==
  {<<"1">>, <<"-", "2">>, <<"a">>, <<"1", "+", "a">>,
   <<"g", "(", "1", ":", "2", ")">>}

Ranges ==
  [parts : UpTo(RangeOperands, MaxParts) \ {<<>>},
   colon : {<<":">>, <<" ", ":", " ">>}]

RangeDoc(g) == <<Join(g.parts, g.colon)>>

InitRange == InitDocs(Ranges, RangeDoc)

SpecRange == InitRange /\ [][NextParser]_vars

\* the document is one expr statement whose operands are the parts, in order
RangeHasParts(d, parts) ==
  /\ Accepted(d)
  /\ Len(Stmts(d)) = 1
  /\ Stmts(d)[1].rule = "expr"
  /\ Len(Stmts(d)[1].kids) = Len(parts)
  /\ \A k \in DOMAIN parts :
       /\ Stmts(d)[1].kids[k].rule = "binary"
       /\ TrimRight(Text(docs[d], Stmts(d)[1].kids[k])) = parts[k]

\* C5: a range has at most three parts.  a:b parses as an expr of two
\* operands and a:b:c as one of three, in source order; a text with a fourth
\* ":"-joined operand is rejected; and no expr token of an accepted document
\* has more than three operands.
AtMostThreeParts ==
  Parsed(1) =>
    /\ Len(given.parts) \in {2, 3} => RangeHasParts(1, given.parts)
    /\ Len(given.parts) >= 4 => Rejected(1)
    /\ Accepted(1) =>
         \A n \in Nodes(Top(1)) : n.rule = "expr" => Len(n.kids) <= 3

\* 1:-2:a:1 is rejected, though without its fourth part 1:-2:a parses as a
\* range of three parts
FourthPartRejected ==
  /\ given.parts = <<<<"1">>, <<"-", "2">>, <<"a">>, <<"1">>>>
  /\ Rejected(1)
  /\ LET three == parse(Join(SubSeq(given.parts, 1, 3), given.colon))
     IN  three.ok /\ Len(three.kids[1].kids[1].kids) = 3

----------------------------------------------------------------------------
(* two statements put side by side *)

MaxGap == 2

\* texts of one statement each, and two that are not: 'q' is rejected and
\* "1 a" is two statements
StatementTexts ==
  {<<"1">>, <<"a">>, <<"-", "2">>, <<"a", "=", "1">>, <<"1", ";">>,
   <<"g", "(", "1", ")">>, <<"[", "1", " ", "2", "]">>, <<"a", "+", "1">>,
   <<"1", ":", "2">>, <<"\"", "s", "\"">>, <<"b", "=", "-", "2", ";">>,
   <<" ", "-", "2">>, <<"a", " ">>, <<"'", "q", "'">>, <<"1", " ", "a">>}

Gaps == {[k \in 1..n |-> " "] : n \in 1..MaxGap} \cup {<<"\n">>}

Juxtapositions == [s1 : StatementTexts, s2 : StatementTexts, gap : Gaps]

\* documents 1 and 2 are the two texts, document 3 is the first, whitespace,
\* the second
JuxtaposedDocs(g) == <<g.s1, g.s2, g.s1 \o g.gap \o g.s2>>

InitJuxtaposed == InitDocs(Juxtapositions, JuxtaposedDocs)

SpecJuxtaposed == InitJuxtaposed /\ [][NextParser]_vars

OneStatement(d) == Accepted(d) /\ Len(Stmts(d)) = 1

\* document 3 is exactly the statement of document 1, then that of document 2
BothStatementsInOrder ==
  /\ Accepted(3)
  /\ Len(Stmts(3)) = 2
  /\ Shape(docs[3], Stmts(3)[1]) = Shape(docs[1], Stmts(1)[1])
  /\ Shape(docs[3], Stmts(3)[2]) = Shape(docs[2], Stmts(2)[1])

\* C7 as stated: any two texts that each parse as one statement parse, with
\* whitespace between them, as those two statements in that order.
JuxtapositionSeparates ==
  Parsed(3) /\ OneStatement(1) /\ OneStatement(2) => BothStatementsInOrder

\* the first character of t that is not whitespace is "-"
BeginsWithMinus(t) == At(t, skip(t, 1), "-")

\* C7, amended: two texts that each parse as one statement parse, with
\* whitespace between them, as those two statements in that order, provided
\* the second does not begin (after any whitespace) with "-" or the first
\* statement is terminated by ";".
JuxtapositionSeparatesUnlessMinus ==
  /\ Parsed(3) /\ OneStatement(1) /\ OneStatement(2)
  /\ (~BeginsWithMinus(given.s2) \/ Stmts(1)[1].rule = "statement_semi")
  => BothStatementsInOrder

\* a=1 and g(1), side by side, are the two statements a=1 and g(1)
AssignmentThenCall ==
  /\ given.s1 = <<"a", "=", "1">> /\ given.s2 = <<"g", "(", "1", ")">>
  /\ OneStatement(1) /\ OneStatement(2)
  /\ BothStatementsInOrder

----------------------------------------------------------------------------
(* the VS Code client: findBinary, LogService and Extension *)

\* A path is a sequence of lexemes such as <<"/", "bin", "/", "octave-lsp">>;
\* process.env.PATH is such a sequence too, its directories set apart by ":".

\* path.isAbsolute on a POSIX host
isAbsolute(p) == p # <<>> /\ Head(p) = "/"

\* path.join(dir, name) for a directory without a trailing "/": an empty
\* directory leaves the name as it is, relative to the working directory
join(dir, name) == IF dir = <<>> THEN name ELSE dir \o <<"/">> \o name

\* PATH.split(path.delimiter): an empty PATH is one empty directory
RECURSIVE split(_)
split(p) ==
  IF p = <<>> THEN << <<>> >>
  ELSE LET rest == split(Tail(p))
       IN  IF Head(p) = ":" THEN << <<>> >> \o rest
           ELSE << <<Head(p)>> \o rest[1] >> \o Tail(rest)

\* process.env.PATH?.split(path.delimiter) ?? []
searchPath(e) == IF e.set THEN split(e.PATH) ELSE <<>>

\* fs.existsSync
existsSync(e, p) == p \in e.files

Returned(p) == [thrown |-> FALSE, path |-> p]

Thrown == [thrown |-> TRUE, path |-> <<>>]

\* the for loop of findBinary over the directories not yet tried
RECURSIVE findInDirs(_, _, _)
findInDirs(e, dirs, pathOrName) ==
  IF dirs = <<>> THEN Thrown
  ELSE IF existsSync(e, join(Head(dirs), pathOrName))
  THEN Returned(join(Head(dirs), pathOrName))
  ELSE findInDirs(e, Tail(dirs), pathOrName)

\* findBinary that looks for an absolute path too before it returns it
findBinary_existing(e, pathOrName) ==
  IF isAbsolute(pathOrName)
  THEN IF existsSync(e, pathOrName) THEN Returned(pathOrName) ELSE Thrown
  ELSE findInDirs(e, searchPath(e), pathOrName)

findBinary(e, pathOrName) ==
  IF isAbsolute(pathOrName) THEN Returned(pathOrName)
  ELSE findInDirs(e, searchPath(e), pathOrName)

Call(name, on, arg) == [call |-> name, on |-> on, arg |-> arg]

Activated == <<"Octave extension activated">>

Deactivating == <<"Deactivating Octave extension">>

\* the line LogService.log writes: the message after the date and the time
\* of the call, which stand here as one lexeme
Stamped(message) == <<"[date time] ">> \o message

\* LogService.log of extension n: the console, then the output channel
LogService_log(n, message) ==
  <<Call("console.log", n, message),
    Call("channel.appendLine", n, Stamped(message))>>

\* LogService.dispose
LogService_dispose(n) == <<Call("channel.dispose", n, <<>>)>>

\* the activation attempts made so far: one output channel each
Attempts == Cardinality({k \in DOMAIN trace : trace[k].call = "createOutputChannel"})

\* the calls of new Extension(context), the n-th one, up to the point where
\* findBinary throws or to the end of the constructor
Extension_new(n, found) ==
  <<Call("createOutputChannel", n, <<"Octave">>)>> \o
  IF found.thrown THEN <<Call("findBinary throws", n, <<>>)>>
  ELSE <<Call("findBinary", n, found.path),
         Call("new LanguageClient", n, found.path),
         Call("traceOutputChannel.show", n, <<>>),
         Call("client.start", n, <<>>)>> \o LogService_log(n, Activated)

\* dispose that logs after it has disposed of the logger
Extension_dispose_log_last(n) ==
  LogService_dispose(n) \o LogService_log(n, Deactivating)
    \o <<Call("client.stop", n, <<>>)>>

\* the calls of Extension.dispose
Extension_dispose(n) ==
  LogService_log(n, Deactivating) \o LogService_dispose(n)
    \o <<Call("client.stop", n, <<>>)>>

MaxActivations == 2

\* activate(context): the extension host activates the extension when none
\* is live; an Extension whose constructor throws is never subscribed
activate ==
  /\ Attempts < MaxActivations
  /\ \A k \in DOMAIN ext : ext[k].disposed
  /\ LET n     == Attempts + 1
         found == findBinary(env, env.lspPath)
     IN  /\ trace' = trace \o Extension_new(n, found)
         /\ ext' = IF found.thrown THEN ext
                   ELSE Append(ext, [id |-> n, command |-> found.path,
                                     disposed |-> FALSE])
  /\ UNCHANGED <<given, docs, trees, env>>

\* deactivation: the host disposes of context.subscriptions, once
dispose ==
  \E k \in DOMAIN ext :
    /\ ~ext[k].disposed
    /\ trace' = trace \o Extension_dispose(ext[k].id)
    /\ ext' = [ext EXCEPT ![k].disposed = TRUE]
    /\ UNCHANGED <<given, docs, trees, env>>

NextExtension == activate \/ dispose

MaxDirs == 2

Dirs == {<<"/", "bin">>, <<"/", "opt">>, <<>>}

ServerNames == {<<"octave-lsp">>, <<"/", "srv", "/", "octave-lsp">>}

Files ==
  {<<"/", "bin", "/", "octave-lsp">>, <<"/", "opt", "/", "octave-lsp">>,
   <<"octave-lsp">>, <<"/", "srv", "/", "octave-lsp">>}

Hosts ==
  {[PATH |-> <<>>, set |-> FALSE, files |-> f, lspPath |-> n] :
     f \in SUBSET Files, n \in ServerNames}
  \cup
  {[PATH |-> Join(ds, <<":">>), set |-> TRUE, files |-> f, lspPath |-> n] :
     ds \in UpTo(Dirs, MaxDirs), f \in SUBSET Files, n \in ServerNames}

InitExtension ==
  /\ env \in Hosts
  /\ ext = <<>>
  /\ trace = <<>>
  /\ given = <<>>
  /\ docs = <<>>
  /\ trees = <<>>

SpecExtension == InitExtension /\ [][NextExtension]_vars

\* the places in the trace of the calls of that name made by extension n
Places(name, n) ==
  {k \in DOMAIN trace : trace[k].call = name /\ trace[k].on = n}

\* the directories of PATH that hold the server, by their place in PATH
Holding(e) ==
  {k \in DOMAIN searchPath(e) : join(searchPath(e)[k], e.lspPath) \in e.files}

\* C9: findBinary resolves the server executable deterministically.  An
\* absolute path is returned unchanged, whether the file exists or not;
\* otherwise the result is the join of the first directory of PATH in which
\* the file exists; with PATH unset, or the file in none of its directories,
\* findBinary throws and no path is returned.
FindBinaryResolves ==
  \A n \in 1..Attempts :
    IF isAbsolute(env.lspPath)
    THEN \E k \in Places("findBinary", n) : trace[k].arg = env.lspPath
    ELSE IF Holding(env) # {}
    THEN \E k \in Places("findBinary", n), d \in Holding(env) :
           /\ \A other \in Holding(env) : d <= other
           /\ trace[k].arg = join(searchPath(env)[d], env.lspPath)
    ELSE /\ Places("findBinary", n) = {}
         /\ Places("findBinary throws", n) # {}
         /\ \A k \in DOMAIN ext : ext[k].id # n

\* the server is in both directories of PATH and the first one is taken
FirstOfTwoDirectoriesTaken ==
  /\ Attempts >= 1
  /\ ~isAbsolute(env.lspPath)
  /\ Cardinality(Holding(env)) = 2
  /\ \E k \in Places("findBinary", 1) :
       trace[k].arg = join(searchPath(env)[1], env.lspPath)

\* an absolute path to a file that does not exist is returned all the same
MissingAbsolutePathReturned ==
  /\ Attempts >= 1
  /\ isAbsolute(env.lspPath) /\ env.lspPath \notin env.files
  /\ \E k \in Places("findBinary", 1) : trace[k].arg = env.lspPath

\* C10: the language client of an extension is started exactly once, after
\* the server binary was resolved, and the activation message is logged
\* after the start; dispose appends the deactivation message before it
\* disposes of the channel and stops the client after that; so no message is
\* ever appended to an output channel that has been disposed of.
LifecycleOrdered ==
  \A n \in 1..Attempts :
    /\ Cardinality(Places("client.start", n)) <= 1
    /\ (\E k \in DOMAIN ext : ext[k].id = n) =>
         Cardinality(Places("client.start", n)) = 1
    /\ \A s \in Places("client.start", n) :
         /\ \E r \in Places("findBinary", n) : r < s
         /\ \E a \in Places("channel.appendLine", n) :
              s < a /\ trace[a].arg = Stamped(Activated)
    /\ \A a \in Places("channel.appendLine", n) :
         /\ \E s \in Places("client.start", n) : s < a
         /\ trace[a].arg = Stamped(Deactivating) =>
              \E c \in Places("channel.dispose", n) :
                /\ a < c
                /\ \E t \in Places("client.stop", n) : c < t
    /\ \A c \in Places("channel.dispose", n) :
         \A a \in Places("channel.appendLine", n) : a < c

\* an extension was activated and disposed of, and a second one activated
DisposedAndActivatedAgain ==
  /\ Len(ext) = 2
  /\ ext[1].disposed
  /\ Places("channel.dispose", 1) # {}
  /\ Places("client.start", 2) # {}

=============================================================================
